---- MODULE Spec2Model ----
(***************************************************************************)
(* Model of src/app.py: the salary deflation pipeline of the dashboard.    *)
(*                                                                         *)
(* One run of the script is the state machine                              *)
(*   fetch_cpi_us -> merge_all + compute_last_common_month -> date-range   *)
(*   picker + window filter -> base month + derived series -> chart.       *)
(*                                                                         *)
(* Numbers are the float64 values pandas works with, computed bit for bit  *)
(* (see the arithmetic section).  Dates are integers month*100 + day; NaT  *)
(* is the missing date.                                                    *)
(***************************************************************************)
EXTENDS Integers, Sequences, FiniteSets

VARIABLES
    pc,           \* position of the run in the script
    input_df,     \* the uploaded table (app.py:72-83)
    cpi_us_df,    \* the reference index (app.py:105-109)
    fetches,      \* how many times fetch_cpi_us ran in this run
    fetch_ok,     \* whether the fetch returned
    df,           \* the merged series table (app.py:111)
    first,        \* app.py:112
    last_common,  \* app.py:112
    por_linea,    \* app.py:112, the per-series watermarks
    start_date,   \* app.py:119-122
    end_date,     \* app.py:119-122
    base_month,   \* app.py:133-136
    cpi_ar_base,  \* app.py:138-142
    cpi_us_base,  \* app.py:139-145
    out,          \* app.py:147-158
    series,       \* app.py:160-162
    shown,        \* what the run has put on the page, in order
    prev          \* the watermarks of the table before its last sparsification

vars == <<pc, input_df, cpi_us_df, fetches, fetch_ok, df, first, last_common,
          por_linea, start_date, end_date, base_month, cpi_ar_base,
          cpi_us_base, out, series, shown, prev>>

----------------------------------------------------------------------------
(* Bounds of the model. *)

MaxMonth == 2
MaxRows == 2
MaxRef == 2

----------------------------------------------------------------------------
(* float64 arithmetic as numpy performs it on the columns (IEEE 754         *)
(* binary64, round to nearest, ties to even).                               *)
(*                                                                          *)
(* A value is a record [cls, sign, mant, exp]:                              *)
(*   cls = "nan"                      NaN                                   *)
(*   cls = "inf",  sign = 1 or -1     +inf, -inf                            *)
(*   cls = "zero", sign = 1 or -1     0.0, -0.0                             *)
(*   cls = "num"                      sign * mant * 2^exp, mant odd         *)
(* mant is a natural number of up to 53 bits, written as its digits in base *)
(* 2^15, least significant first: <<d1, d2, ...>> is d1 + d2*2^15 + ...     *)
(* 1000.0 is [num, 1, <<125>>, 3]; 0.1 is [num, 1, <<6553, 19660, 6553,     *)
(* 102>>, -55], that is 3602879701896397 * 2^-55.                           *)

Limb == 2^15

\* the significand has 53 bits
Precision == 53

\* the exponent of the last bit of a subnormal, 2^-1074
MinExp == -1074

\* values of 2^1024 and more overflow to infinity
OverflowExp == 1024

Abs(x) == IF x < 0 THEN -x ELSE x

Max(a, b) == IF a >= b THEN a ELSE b

\* ---- natural numbers of any size, as sequences of limbs ----

RECURSIVE Trim(_)
Trim(a) ==
    IF a # <<>> /\ a[Len(a)] = 0 THEN Trim(SubSeq(a, 1, Len(a) - 1)) ELSE a

RECURSIVE Big(_)
Big(n) == IF n = 0 THEN <<>> ELSE <<n % Limb>> \o Big(n \div Limb)

LimbAt(a, i) == IF i <= Len(a) THEN a[i] ELSE 0

RECURSIVE CmpFrom(_, _, _)
CmpFrom(a, b, i) ==
    IF i = 0 THEN 0
    ELSE IF a[i] < b[i] THEN -1
    ELSE IF a[i] > b[i] THEN 1
    ELSE CmpFrom(a, b, i - 1)

\* -1, 0 or 1 as a < b, a = b or a > b
BigCmp(a, b) ==
    IF Len(a) < Len(b) THEN -1
    ELSE IF Len(a) > Len(b) THEN 1
    ELSE CmpFrom(a, b, Len(a))

RECURSIVE AddFrom(_, _, _, _)
AddFrom(a, b, i, carry) ==
    IF i > Len(a) /\ i > Len(b)
    THEN (IF carry = 0 THEN <<>> ELSE <<carry>>)
    ELSE LET t == LimbAt(a, i) + LimbAt(b, i) + carry
         IN <<t % Limb>> \o AddFrom(a, b, i + 1, t \div Limb)

BigAdd(a, b) == AddFrom(a, b, 1, 0)

RECURSIVE SubFrom(_, _, _, _)
SubFrom(a, b, i, borrow) ==
    IF i > Len(a) THEN <<>>
    ELSE LET t == a[i] - LimbAt(b, i) - borrow
         IN <<IF t < 0 THEN t + Limb ELSE t>>
            \o SubFrom(a, b, i + 1, IF t < 0 THEN 1 ELSE 0)

\* a - b, for a >= b
BigSub(a, b) == Trim(SubFrom(a, b, 1, 0))

RECURSIVE MulLimbFrom(_, _, _, _)
MulLimbFrom(a, d, i, carry) ==
    IF i > Len(a) THEN (IF carry = 0 THEN <<>> ELSE <<carry>>)
    ELSE LET t == a[i] * d + carry
         IN <<t % Limb>> \o MulLimbFrom(a, d, i + 1, t \div Limb)

\* a * d, for a limb d
BigMulLimb(a, d) == IF d = 0 THEN <<>> ELSE MulLimbFrom(a, d, 1, 0)

\* a * 2^(15 n)
ShiftLimbs(a, n) == IF a = <<>> THEN <<>> ELSE [i \in 1..n |-> 0] \o a

RECURSIVE BigMul(_, _)
BigMul(a, b) ==
    IF b = <<>> THEN <<>>
    ELSE BigAdd(BigMulLimb(a, Head(b)), ShiftLimbs(BigMul(a, Tail(b)), 1))

\* quotient and remainder of a by a limb d > 0: short division from the most
\* significant limb, i limbs still to go, q and r so far
RECURSIVE DivLimbFrom(_, _, _, _, _)
DivLimbFrom(a, d, i, q, r) ==
    IF i = 0 THEN [q |-> Trim(q), r |-> Big(r)]
    ELSE LET t == r * Limb + a[i]
         IN IF t < d THEN DivLimbFrom(a, d, i - 1, <<0>> \o q, t)
            ELSE DivLimbFrom(a, d, i - 1, <<t \div d>> \o q, t % d)

BigDivLimb(a, d) == DivLimbFrom(a, d, Len(a), <<>>, 0)

\* the greatest limb g with g * b <= t, for t < b * 2^15, found bit by bit
RECURSIVE QuotientLimb(_, _, _, _)
QuotientLimb(t, b, g, bit) ==
    IF bit < 0 THEN g
    ELSE IF BigCmp(BigMulLimb(b, g + 2^bit), t) <= 0
    THEN QuotientLimb(t, b, g + 2^bit, bit - 1)
    ELSE QuotientLimb(t, b, g, bit - 1)

\* quotient and remainder of a by b > 0: long division from the most
\* significant limb, i limbs still to go, q and r so far
RECURSIVE DivFrom(_, _, _, _, _)
DivFrom(a, b, i, q, r) ==
    IF i = 0 THEN [q |-> Trim(q), r |-> r]
    ELSE LET t == Trim(<<a[i]>> \o r)
             g == QuotientLimb(t, b, 0, 14)
         IN IF g = 0 THEN DivFrom(a, b, i - 1, <<0>> \o q, t)
            ELSE DivFrom(a, b, i - 1, <<g>> \o q, BigSub(t, BigMulLimb(b, g)))

BigDivMod(a, b) ==
    IF Len(b) = 1 THEN BigDivLimb(a, b[1]) ELSE DivFrom(a, b, Len(a), <<>>, <<>>)

\* a * 2^k
BigShl(a, k) == ShiftLimbs(BigMulLimb(a, 2^(k % 15)), k \div 15)

\* a \div 2^k
BigShr(a, k) ==
    IF k \div 15 >= Len(a) THEN <<>>
    ELSE BigDivLimb(SubSeq(a, k \div 15 + 1, Len(a)), 2^(k % 15)).q

RECURSIVE Bits(_)
Bits(n) == IF n = 0 THEN 0 ELSE 1 + Bits(n \div 2)

\* the number of bits of a
BitLen(a) == IF a = <<>> THEN 0 ELSE 15 * (Len(a) - 1) + Bits(a[Len(a)])

RECURSIVE TrailingZeros(_)
TrailingZeros(n) == IF n % 2 = 1 THEN 0 ELSE 1 + TrailingZeros(n \div 2)

\* the number of zero bits a > 0 ends with
RECURSIVE BigTrailingZeros(_)
BigTrailingZeros(a) ==
    IF Head(a) = 0 THEN 15 + BigTrailingZeros(Tail(a)) ELSE TrailingZeros(Head(a))

\* ---- the values ----

Float(c, s, m, e) == [cls |-> c, sign |-> s, mant |-> m, exp |-> e]

NaN == Float("nan", 1, <<>>, 0)
Inf(s) == Float("inf", s, <<>>, 0)
SignedZero(s) == Float("zero", s, <<>>, 0)
Zero == SignedZero(1)
NegZero == SignedZero(-1)

\* the double sign * m * 2^e, for m of at most 53 bits and e >= MinExp
Finite(s, m, e) ==
    IF m = <<>> THEN SignedZero(s)
    ELSE IF BitLen(m) + e > OverflowExp THEN Inf(s)
    ELSE LET z == BigTrailingZeros(m) IN Float("num", s, BigShr(m, z), e + z)

\* the double nearest to sign * (p + f) * 2^e, where 0 <= f < 1 and f > 0 iff
\* sticky: ties go to the even significand, results below 2^-1022 keep fewer
\* bits, results of 2^1024 and more are infinite. When sticky, p has more than
\* 54 bits.
RoundToDouble(s, p, e, sticky) ==
    LET lsb == Max(e + BitLen(p) - Precision, MinExp)
        k == lsb - e
    IN IF k <= 0 THEN Finite(s, p, e)
       ELSE LET q == BigShr(p, k)
                r == BigSub(p, BigShl(q, k))
                c == BigCmp(r, BigShl(<<1>>, k - 1))
                up == c > 0 \/ (c = 0 /\ (sticky \/ LimbAt(q, 1) % 2 = 1))
            IN Finite(s, IF up THEN BigAdd(q, <<1>>) ELSE q, lsb)

\* the double of an integer of the file (|n| < 2^31)
Num(n) == IF n = 0 THEN Zero ELSE Finite(IF n < 0 THEN -1 ELSE 1, Big(Abs(n)), 0)

isna(v) == v.cls = "nan"

notna(v) == v.cls # "nan"

\* a * b
Mul(a, b) ==
    LET s == a.sign * b.sign
    IN IF isna(a) \/ isna(b) THEN NaN
       ELSE IF a.cls = "inf" \/ b.cls = "inf"
       THEN (IF a.cls = "zero" \/ b.cls = "zero" THEN NaN ELSE Inf(s))
       ELSE IF a.cls = "zero" \/ b.cls = "zero" THEN SignedZero(s)
       ELSE RoundToDouble(s, BigMul(a.mant, b.mant), a.exp + b.exp, FALSE)

\* a / b: x / 0 is +-inf, 0 / 0 and inf / inf are NaN, no ZeroDivisionError
Div(a, b) ==
    LET s == a.sign * b.sign
    IN IF isna(a) \/ isna(b) THEN NaN
       ELSE IF a.cls = "inf" THEN (IF b.cls = "inf" THEN NaN ELSE Inf(s))
       ELSE IF b.cls = "inf" THEN SignedZero(s)
       ELSE IF b.cls = "zero" THEN (IF a.cls = "zero" THEN NaN ELSE Inf(s))
       ELSE IF a.cls = "zero" THEN SignedZero(s)
       ELSE LET k == Precision + 3 + BitLen(b.mant) - BitLen(a.mant)
                x == BigDivMod(BigShl(a.mant, k), b.mant)
            IN RoundToDouble(s, x.q, a.exp - b.exp - k, x.r # <<>>)

\* a zero of either sign
IsZero(v) == v.cls = "zero"

----------------------------------------------------------------------------
(* Dates. *)

NaT == 0
Unparseable == -1

MonthStart(m) == m * 100 + 1

\* pd.to_datetime(errors="coerce") then truncation to the first of the month
to_month_start(s) ==
    IF s = NaT \/ s = Unparseable THEN NaT ELSE (s \div 100) * 100 + 1

\* Timestamp comparisons: every comparison with NaT is False
DateLT(a, b) == a # NaT /\ b # NaT /\ a < b
DateLE(a, b) == a # NaT /\ b # NaT /\ a <= b
DateGE(a, b) == a # NaT /\ b # NaT /\ a >= b

----------------------------------------------------------------------------
(* Tables: [cols: the column names present, rows: the rows in order]. A    *)
(* row carries every field; a field whose column is absent is NaN.         *)

ValueCols == {"sueldo_nominal_ars", "usd_ars", "cpi_ar", "cpi_us"}

Row(i, f, s, u, ca, cu) ==
    [idx |-> i, fecha |-> f, sueldo_nominal_ars |-> s, usd_ars |-> u,
     cpi_ar |-> ca, cpi_us |-> cu]

Table(c, r) == [cols |-> c, rows |-> r]

NoTable == Table({}, <<>>)

Fechas(rows) == {rows[i].fecha : i \in 1..Len(rows)}

SetMax(S) == CHOOSE x \in S : \A y \in S : y <= x
SetMin(S) == CHOOSE x \in S : \A y \in S : x <= y

\* Series.max() / Series.min() of a datetime column: NaT is skipped, and the
\* result of an empty or all-NaT column is NaT
FechaMax(rows) ==
    LET S == Fechas(rows) \ {NaT} IN IF S = {} THEN NaT ELSE SetMax(S)

FechaMin(rows) ==
    LET S == Fechas(rows) \ {NaT} IN IF S = {} THEN NaT ELSE SetMin(S)

\* column.notna().any()
AnyNotna(t, col) ==
    col \in t.cols /\ \E i \in 1..Len(t.rows) : notna(t.rows[i][col])

\* sort_values("fecha"): ascending, NaT last; equal keys keep their order
\* (numpy sorts short arrays by insertion)
RECURSIVE InsertRow(_, _)
InsertRow(r, s) ==
    IF s = <<>> THEN <<r>>
    ELSE IF DateLT(Head(s).fecha, r.fecha) \/ (r.fecha = NaT /\ Head(s).fecha # NaT)
         THEN <<Head(s)>> \o InsertRow(r, Tail(s))
         ELSE <<r>> \o s

RECURSIVE sort_values(_)
sort_values(rows) ==
    IF rows = <<>> THEN <<>> ELSE InsertRow(Head(rows), sort_values(Tail(rows)))

----------------------------------------------------------------------------
(* fetch_cpi_us (app.py:18-26): the downloaded rows, normalised to month   *)
(* starts, without the rows that miss a date or a level.                   *)

RefRow(f, c) == [fecha |-> f, cpi_us |-> c]

fetch_cpi_us(csv) ==
    LET n == [i \in 1..Len(csv) |-> RefRow(to_month_start(csv[i].fecha), csv[i].cpi_us)]
    IN SelectSeq(n, LAMBDA e : e.fecha # NaT /\ notna(e.cpi_us))

----------------------------------------------------------------------------
(* merge_all (app.py:38-48). *)

\* DataFrame.merge(cpi_us_df, on="fecha", how="left"): the left order is kept,
\* a left row is repeated once per matching reference row, and gets NaN when
\* none matches
RECURSIVE LeftJoin(_, _)
LeftJoin(rows, ref) ==
    IF rows = <<>> THEN <<>>
    ELSE LET r == Head(rows)
             m == SelectSeq(ref, LAMBDA e : e.fecha = r.fecha)
             j == IF m = <<>> THEN <<[r EXCEPT !.cpi_us = NaN]>>
                  ELSE [k \in 1..Len(m) |-> [r EXCEPT !.cpi_us = m[k].cpi_us]]
         IN j \o LeftJoin(Tail(rows), ref)

\* merge returns a fresh RangeIndex
Reindex(rows) == [i \in 1..Len(rows) |-> [rows[i] EXCEPT !.idx = i]]

SchemaOk(t) == "fecha" \in t.cols /\ "sueldo_nominal_ars" \in t.cols

merge_all_always_join(sueldos_df, ref) ==
    LET n == [i \in 1..Len(sueldos_df.rows) |->
                 [sueldos_df.rows[i] EXCEPT !.fecha = to_month_start(@)]]
    IN Table(sueldos_df.cols \cup {"cpi_us"}, Reindex(LeftJoin(sort_values(n), ref)))

\* the table merge_all returns; the caller checks SchemaOk first (st.stop)
merge_all(sueldos_df, ref) ==
    LET n == [i \in 1..Len(sueldos_df.rows) |->
                 [sueldos_df.rows[i] EXCEPT !.fecha = to_month_start(@)]]
        sorted == sort_values(n)
    IN IF "cpi_us" \notin sueldos_df.cols
       THEN Table(sueldos_df.cols \cup {"cpi_us"}, Reindex(LeftJoin(sorted, ref)))
       ELSE Table(sueldos_df.cols, sorted)

----------------------------------------------------------------------------
(* compute_last_common_month (app.py:50-59). *)

\* df.dropna(subset=fields)
dropna(rows, fields) ==
    SelectSeq(rows, LAMBDA r : \A f \in fields : notna(r[f]))

ArsFields == {"sueldo_nominal_ars", "cpi_ar"}
UsdFields == {"sueldo_nominal_ars", "usd_ars", "cpi_us"}

fechas_of_earliest(t) ==
    (IF AnyNotna(t, "cpi_ar")
     THEN <<[serie |-> "ars_real", fecha |-> FechaMin(dropna(t.rows, ArsFields))]>>
     ELSE <<>>)
    \o
    (IF AnyNotna(t, "usd_ars") /\ AnyNotna(t, "cpi_us")
     THEN <<[serie |-> "usd_real", fecha |-> FechaMin(dropna(t.rows, UsdFields))]>>
     ELSE <<>>)

\* the dict fechas, as the sequence of its items in insertion order
fechas_of(t) ==
    (IF AnyNotna(t, "cpi_ar")
     THEN <<[serie |-> "ars_real", fecha |-> FechaMax(dropna(t.rows, ArsFields))]>>
     ELSE <<>>)
    \o
    (IF AnyNotna(t, "usd_ars") /\ AnyNotna(t, "cpi_us")
     THEN <<[serie |-> "usd_real", fecha |-> FechaMax(dropna(t.rows, UsdFields))]>>
     ELSE <<>>)

\* Python's min over a non-empty list: the first element, replaced by a later
\* one only when that one compares less (never, against NaT)
RECURSIVE py_min_from(_, _)
py_min_from(best, s) ==
    IF s = <<>> THEN best
    ELSE py_min_from(IF DateLT(Head(s), best) THEN Head(s) ELSE best, Tail(s))

py_min(s) == py_min_from(Head(s), Tail(s))

last_common_of(t) ==
    LET fs == fechas_of(t)
    IN IF fs # <<>> THEN py_min([i \in 1..Len(fs) |-> fs[i].fecha])
       ELSE FechaMax(t.rows)

first_of(t) == FechaMin(t.rows)

----------------------------------------------------------------------------
(* The window, the base levels and the derived series (app.py:124-162).    *)

\* df.loc[(fecha >= start_date) & (fecha <= end_date)]
window(t, s, e) ==
    SelectSeq(t.rows, LAMBDA r : DateGE(r.fecha, s) /\ DateLE(r.fecha, e))

df_r == window(df, start_date, end_date)

\* cpi_ar_base / cpi_us_base is None
None == Float("none", 1, <<>>, 0)

\* the last known level at or before the base month, among the window's rows
base_level(cols, rows, col, b) ==
    IF AnyNotna(Table(cols, rows), col)
    THEN LET tmp == SelectSeq(rows, LAMBDA r : DateLE(r.fecha, b) /\ notna(r[col]))
         IN IF tmp # <<>> THEN tmp[Len(tmp)][col] ELSE None
    ELSE None

deflate_no_division(serie, cpi, cpi_base) == Mul(serie, cpi_base)

\* deflate (app.py:61-62), the formula lines 153 and 158 spell out
deflate(serie, cpi, cpi_base) == Mul(serie, Div(cpi_base, cpi))

OutRow(r, ar, un, ur) ==
    [idx |-> r.idx, fecha |-> r.fecha, sueldo_nominal_ars |-> r.sueldo_nominal_ars,
     ars_real |-> ar, usd_nominal |-> un, usd_real |-> ur]

\* the table out of app.py:147-158 for the window's rows and the base levels
derive(cols, rows, ab, ub) ==
    LET has_usd == AnyNotna(Table(cols, rows), "usd_ars")
        one(r) ==
            LET ar == IF ab # None
                      THEN deflate(r.sueldo_nominal_ars, r.cpi_ar, ab) ELSE NaN
                un == IF has_usd THEN Div(r.sueldo_nominal_ars, r.usd_ars) ELSE NaN
                ur == IF has_usd /\ ub # None
                      THEN deflate(un, r.cpi_us, ub) ELSE NaN
            IN OutRow(r, ar, un, ur)
    IN [i \in 1..Len(rows) |-> one(rows[i])]

\* app.py:160-162
series_of(o) ==
    (IF \E i \in 1..Len(o) : notna(o[i].ars_real) THEN <<"ars_real">> ELSE <<>>)
    \o
    (IF \E i \in 1..Len(o) : notna(o[i].usd_real) THEN <<"usd_real">> ELSE <<>>)

----------------------------------------------------------------------------
(* Inputs of a run. *)

Months == 1..MaxMonth

PickerDates == {MonthStart(m) : m \in Months}

\* a table with at most one row per month, in file order; cell[m].present
\* says whether month m has a row
Cells(S, U, CA, CU) ==
    {[present |-> TRUE, s |-> s, u |-> u, ca |-> ca, cu |-> cu] :
        s \in S, u \in U, ca \in CA, cu \in CU}
    \cup {[present |-> FALSE, s |-> NaN, u |-> NaN, ca |-> NaN, cu |-> NaN]}

RECURSIVE RowsFrom(_, _)
RowsFrom(f, m) ==
    IF m > MaxMonth THEN <<>>
    ELSE (IF f[m].present
          THEN <<Row(0, MonthStart(m), f[m].s, f[m].u, f[m].ca, f[m].cu)>>
          ELSE <<>>) \o RowsFrom(f, m + 1)

MonthlyTables(cols, S, U, CA, CU) ==
    {Table(cols, Reindex(RowsFrom(f, 1))) : f \in [Months -> Cells(S, U, CA, CU)]}

Base2 == {"fecha", "sueldo_nominal_ars"}

PipelineInputs ==
    MonthlyTables(Base2 \cup {"cpi_ar"},
                  {NaN, Num(1000)}, {NaN}, {NaN, Zero, Num(100), Num(110)}, {NaN})
    \cup MonthlyTables(Base2 \cup {"usd_ars", "cpi_us"},
                  {Num(1000)}, {NaN, Num(200)}, {NaN}, {NaN, NegZero, Num(100), Num(105)})
    \cup MonthlyTables(Base2 \cup {"usd_ars"},
                  {Num(1000)}, {NaN, Num(200)}, {NaN}, {NaN})
    \cup MonthlyTables(Base2, {NaN, Num(1000)}, {NaN}, {NaN}, {NaN})
    \cup MonthlyTables(ValueCols \cup {"fecha"},
                  {Num(1000)}, {Num(200)}, {NaN, Num(100)}, {NaN, Num(100)})
    \cup {Table({"sueldo_nominal_ars"}, <<>>), Table({"fecha", "cpi_ar"}, <<>>)}

\* what the reference source may answer: the first k months of the index
RECURSIVE RefCsv(_)
RefCsv(k) ==
    IF k = 0 THEN <<>> ELSE Append(RefCsv(k - 1), RefRow(MonthStart(k), Num(250 + k)))

ReferenceCsvs == {RefCsv(1), RefCsv(MaxMonth)}

----------------------------------------------------------------------------
(* The run. *)

Last(s) == s[Len(s)]

Init ==
    /\ pc = "load"
    /\ input_df = NoTable
    /\ cpi_us_df = <<>>
    /\ fetches = 0
    /\ fetch_ok = FALSE
    /\ df = NoTable
    /\ first = NaT
    /\ last_common = NaT
    /\ por_linea = <<>>
    /\ start_date = NaT
    /\ end_date = NaT
    /\ base_month = NaT
    /\ cpi_ar_base = None
    /\ cpi_us_base = None
    /\ out = <<>>
    /\ series = <<>>
    /\ shown = <<>>
    /\ prev = <<>>

\* app.py:72-103: the upload, or the hint and st.stop() when there is none
Load(inputs) ==
    /\ pc = "load"
    /\ \/ /\ pc' = "stopped"
          /\ shown' = Append(shown, "info_no_input")
          /\ UNCHANGED input_df
       \/ /\ \E t \in inputs : input_df' = t
          /\ pc' = "fetch"
          /\ UNCHANGED shown
    /\ UNCHANGED <<cpi_us_df, fetches, fetch_ok, df, first, last_common, por_linea,
                   start_date, end_date, base_month, cpi_ar_base, cpi_us_base,
                   out, series, prev>>

\* app.py:105-109: one attempt; a failure leaves the empty reference index
Fetch ==
    /\ pc = "fetch"
    /\ fetches' = fetches + 1
    /\ \/ /\ \E csv \in ReferenceCsvs : cpi_us_df' = fetch_cpi_us(csv)
          /\ fetch_ok' = TRUE
          /\ UNCHANGED shown
       \/ /\ cpi_us_df' = <<>>
          /\ fetch_ok' = FALSE
          /\ shown' = Append(shown, "warning_fetch")
    /\ pc' = "merge"
    /\ UNCHANGED <<input_df, df, first, last_common, por_linea, start_date,
                   end_date, base_month, cpi_ar_base, cpi_us_base, out, series, prev>>

\* DataFrame.merge compares the dtypes of the two key columns unless exactly
\* one side has no rows. to_month_start makes fecha datetime64 on both sides,
\* but the placeholder pd.DataFrame(columns=["fecha","cpi_us"]) that a failed
\* fetch leaves has an object-typed fecha: joined to a table without rows,
\* pandas either raises a ValueError or returns the empty join, by version.
MergeKeysMayMismatch(sueldos_df) ==
    /\ ~fetch_ok
    /\ "cpi_us" \notin sueldos_df.cols
    /\ sueldos_df.rows = <<>>

\* app.py:111-112
Merge ==
    /\ pc = "merge"
    /\ \/ /\ ~SchemaOk(input_df)
          /\ shown' = Append(shown, "error_schema")
          /\ pc' = "stopped"
          /\ UNCHANGED <<df, first, last_common, por_linea>>
       \/ /\ SchemaOk(input_df)
          /\ MergeKeysMayMismatch(input_df)
          /\ shown' = Append(shown, "exception")
          /\ pc' = "crashed"
          /\ UNCHANGED <<df, first, last_common, por_linea>>
       \/ /\ SchemaOk(input_df)
          /\ LET m == merge_all(input_df, cpi_us_df)
                 t == Table(m.cols, sort_values(m.rows))
             IN /\ df' = t
                /\ first' = first_of(t)
                /\ last_common' = last_common_of(t)
                /\ por_linea' = fechas_of(t)
          /\ pc' = "picker"
          /\ UNCHANGED shown
    /\ UNCHANGED <<input_df, cpi_us_df, fetches, fetch_ok, start_date, end_date,
                   base_month, cpi_ar_base, cpi_us_base, out, series, prev>>

\* app.py:124-128 once the range is known
Filter(s, e) ==
    /\ start_date' = s
    /\ end_date' = e
    /\ IF window(df, s, e) = <<>>
       THEN /\ shown' = shown \o <<"picker", "error_empty">>
            /\ pc' = "stopped"
       ELSE /\ shown' = Append(shown, "picker")
            /\ pc' = "base"

\* app.py:114-128: the picker gets first and last_common as defaults. The
\* widget is not code of this repository: given a missing default it either
\* raises or lets the user pick.
Picker ==
    /\ pc = "picker"
    /\ \/ /\ first = NaT \/ last_common = NaT
          /\ pc' = "crashed"
          /\ shown' = Append(shown, "exception")
          /\ UNCHANGED <<start_date, end_date>>
       \/ \E s \in PickerDates, e \in PickerDates : s <= e /\ Filter(s, e)
       \/ Filter(first, last_common)
    /\ UNCHANGED <<input_df, cpi_us_df, fetches, fetch_ok, df, first, last_common,
                   por_linea, base_month, cpi_ar_base, cpi_us_base, out, series, prev>>

\* app.py:130-162
Base ==
    /\ pc = "base"
    /\ \/ base_month' = FechaMax(df_r)
       \/ \E b \in PickerDates : base_month' = b
    /\ cpi_ar_base' = base_level(df.cols, df_r, "cpi_ar", base_month')
    /\ cpi_us_base' = base_level(df.cols, df_r, "cpi_us", base_month')
    /\ out' = derive(df.cols, df_r, cpi_ar_base', cpi_us_base')
    /\ series' = series_of(out')
    /\ pc' = "present"
    /\ UNCHANGED <<input_df, cpi_us_df, fetches, fetch_ok, df, first, last_common,
                   por_linea, start_date, end_date, shown, prev>>

\* app.py:164-198: NaT.strftime raises. With a series to plot, line 177 passes
\* the tooltip titles as the second positional argument of alt.Tooltip, which
\* is its aggregate: st.altair_chart (179) rejects the chart when it
\* serialises it, and the summary and the download (181-198) are not reached.
Present ==
    /\ pc = "present"
    /\ IF last_common = NaT
       THEN /\ pc' = "crashed"
            /\ shown' = Append(shown, "exception")
       ELSE IF series = <<>>
       THEN /\ pc' = "stopped"
            /\ shown' = shown \o <<"last_common", "error_series">>
       ELSE /\ pc' = "crashed"
            /\ shown' = shown \o <<"last_common", "exception">>
    /\ UNCHANGED <<input_df, cpi_us_df, fetches, fetch_ok, df, first, last_common,
                   por_linea, start_date, end_date, base_month, cpi_ar_base,
                   cpi_us_base, out, series, prev>>

Next == Load(PipelineInputs) \/ Fetch \/ Merge \/ Picker \/ Base \/ Present

Spec == Init /\ [][Next]_vars

----------------------------------------------------------------------------
(* Properties of a run. *)

Range(s) == {s[i] : i \in 1..Len(s)}

Halted == pc \in {"stopped", "crashed"}

\* the run has been through the date-range picker
Picked == "picker" \in Range(shown)

\* out has been computed (the window is non-empty whenever it is)
Derived == out # <<>>

NoSeriesValue ==
    \A i \in 1..Len(out) : isna(out[i].ars_real) /\ isna(out[i].usd_real)

ZeroOrMissing(v) == isna(v) \/ IsZero(v)

\* C1 (as claimed): a row whose price index at t is zero or missing gets a
\* missing real value (never a number, never an infinity), and such rows alone
\* never make a series available for the chart.
C1_ZeroOrMissingIndexGivesMissing ==
    Derived =>
        /\ \A i \in 1..Len(out) :
              /\ ZeroOrMissing(df_r[i].cpi_ar) => isna(out[i].ars_real)
              /\ ZeroOrMissing(df_r[i].cpi_us) => isna(out[i].usd_real)
        /\ "ars_real" \in Range(series) =>
              \E i \in 1..Len(out) :
                  ~ZeroOrMissing(df_r[i].cpi_ar) /\ notna(out[i].ars_real)
        /\ "usd_real" \in Range(series) =>
              \E i \in 1..Len(out) :
                  ~ZeroOrMissing(df_r[i].cpi_us) /\ notna(out[i].usd_real)

\* merge_all has returned the series table
Merged == df.cols # {}

\* C6 (as claimed): with an empty merged table the run halts with a message
\* before the date-range picker is presented, without crashing and without a
\* chart.
C6_EmptyTableHaltsBeforePicker ==
    (Merged /\ df.rows = <<>>) =>
        /\ pc = "stopped"
        /\ ~Picked
        /\ "exception" \notin Range(shown)
        /\ "chart" \notin Range(shown)

\* the rows of the series table that carry col at or before the base month
KnownUpTo(col, b) ==
    SelectSeq(df.rows, LAMBDA r : DateLE(r.fecha, b) /\ notna(r[col]))

C7_For(col, level, real, serie) ==
    LET known == KnownUpTo(col, base_month)
    IN IF known # <<>>
       THEN level = known[Len(known)][col]
       ELSE /\ level = None
            /\ \A i \in 1..Len(out) : isna(out[i][real])
            /\ serie \notin Range(series)

\* C7 (as claimed): for a base month at or before the window end, the base
\* level of each CPI field is the field's value at the latest row of the
\* series table with month <= base_month and the field present (also when the
\* base month lies before the window start); when there is no such row the
\* real series is entirely missing and not in the chart's list.
C7_BaseLevelIsLastKnownInTable ==
    (Derived /\ DateLE(base_month, end_date)) =>
        /\ C7_For("cpi_ar", cpi_ar_base, "ars_real", "ars_real")
        /\ C7_For("cpi_us", cpi_us_base, "usd_real", "usd_real")

\* C8 (as claimed): chart and download are produced only if the input has
\* fecha and sueldo_nominal_ars, the selected window has a row and a real
\* series has a value in it; when one of the three fails the run halts at the
\* first failing check with its error message and nothing later is shown.
C8_ChartOnlyAfterAllChecks ==
    /\ ({"chart", "download"} \cap Range(shown) # {}) =>
          SchemaOk(input_df) /\ df_r # <<>> /\ ~NoSeriesValue
    /\ (Halted /\ input_df # NoTable) =>
          /\ ~SchemaOk(input_df) =>
                pc = "stopped" /\ Last(shown) = "error_schema"
          /\ (SchemaOk(input_df) /\ Picked /\ df_r = <<>>) =>
                pc = "stopped" /\ Last(shown) = "error_empty"
          /\ (SchemaOk(input_df) /\ Picked /\ df_r # <<>> /\ NoSeriesValue) =>
                pc = "stopped" /\ Last(shown) = "error_series"

----------------------------------------------------------------------------
(* C9: a failed reference-index fetch. *)

FetchFailed == fetches = 1 /\ ~fetch_ok

\* out as this run would compute it, for the same window and base month, had
\* the reference index been ref
OutWith(ref) ==
    LET m == merge_all(input_df, ref)
        t == Table(m.cols, sort_values(m.rows))
        w == window(t, start_date, end_date)
    IN derive(t.cols, w, base_level(t.cols, w, "cpi_ar", base_month),
              base_level(t.cols, w, "cpi_us", base_month))

\* the values of a derived series, row by row
Values(o, real) ==
    {<<o[i].fecha, o[i].sueldo_nominal_ars, o[i][real]>> : i \in 1..Len(o)}

\* one attempt, and the failed one leaves the empty reference index
C9_FetchOnce ==
    /\ fetches <= 1
    /\ (FetchFailed /\ pc # "fetch") => cpi_us_df = <<>>

\* the run gets past the warning and merge_all whenever the schema allows
C9_GoesOn ==
    (FetchFailed /\ Halted /\ SchemaOk(input_df)) => Merged

\* stated where out has just been computed; nothing changes it afterwards
C9_CallerSeriesUnaffected ==
    (FetchFailed /\ Derived /\ pc = "present") =>
        \A csv \in ReferenceCsvs :
            LET alt == OutWith(fetch_cpi_us(csv))
            IN /\ "cpi_ar" \in input_df.cols =>
                     Values(out, "ars_real") = Values(alt, "ars_real")
               /\ {"usd_ars", "cpi_us"} \subseteq input_df.cols =>
                     /\ Values(out, "usd_real") = Values(alt, "usd_real")
                     /\ Values(out, "usd_nominal") = Values(alt, "usd_nominal")

OnlyRequiredColumns == input_df.cols = Base2

\* C9 (as claimed): after a failed fetch the run goes on with an empty
\* reference index, the fetch is attempted once, the series the caller's table
\* supplies are computed as if the fetch had succeeded, and an input with only
\* fecha and sueldo_nominal_ars ends with the no-derivable-series error
\* rather than a crash.
C9_FailedFetchEndsWithNoSeriesError ==
    /\ C9_FetchOnce
    /\ C9_GoesOn
    /\ C9_CallerSeriesUnaffected
    /\ (FetchFailed /\ Halted /\ OnlyRequiredColumns) =>
          pc = "stopped" /\ Last(shown) = "error_series"

\* C10: a row whose price index equals the (non-zero) base level keeps its
\* nominal value: ars_real = sueldo_nominal_ars, and
\* usd_real = usd_nominal = sueldo_nominal_ars / usd_ars.
C10_RoundTrip ==
    Derived =>
        \A i \in 1..Len(out) :
            /\ (cpi_ar_base # None /\ ~IsZero(cpi_ar_base)
                    /\ df_r[i].cpi_ar = cpi_ar_base) =>
                  /\ out[i].ars_real = df_r[i].sueldo_nominal_ars
                  /\ deflate(df_r[i].sueldo_nominal_ars, df_r[i].cpi_ar, cpi_ar_base)
                        = df_r[i].sueldo_nominal_ars
            /\ (cpi_us_base # None /\ ~IsZero(cpi_us_base)
                    /\ df_r[i].cpi_us = cpi_us_base) =>
                  /\ out[i].usd_real = out[i].usd_nominal
                  /\ out[i].usd_nominal
                        = Div(df_r[i].sueldo_nominal_ars, df_r[i].usd_ars)

\* the base row keeps 1000 while another row of the window is re-priced
C10_Witness ==
    /\ Derived
    /\ cpi_ar_base = Num(110)
    /\ \E i, j \in 1..Len(out) :
          /\ df_r[i].cpi_ar = cpi_ar_base
          /\ out[i].ars_real = Num(1000)
          /\ df_r[j].cpi_ar = Num(100)
          /\ out[j].ars_real = Num(1100)

----------------------------------------------------------------------------
(* merge_all on its own: any file order, dates inside a month, unparseable *)
(* dates, and a reference index that may repeat a month.                   *)

SeqsUpTo(S, n) == UNION {[1..k -> S] : k \in 0..n}

\* a date as the file gives it: a month start, a day inside the first
\* month, or text that is no date
RawDates == PickerDates \cup {MonthStart(1) + 14, Unparseable}

MergeInputs ==
    {Table(Base2 \cup {"cpi_us"}, Reindex(r)) :
        r \in SeqsUpTo({Row(0, f, Num(1000), NaN, NaN, cu) :
                           f \in RawDates, cu \in {NaN, Num(100)}}, MaxRows)}
    \cup {Table(Base2, Reindex(r)) :
        r \in SeqsUpTo({Row(0, f, Num(1000), NaN, NaN, NaN) : f \in RawDates}, MaxRows)}
    \cup {Table({"fecha"}, <<>>)}

MergeReferenceCsvs ==
    SeqsUpTo({RefRow(f, c) : f \in PickerDates \cup {MonthStart(1) + 14},
                             c \in {NaN, Num(250)}}, MaxRef)

InitMerge ==
    /\ pc = "merge"
    /\ input_df \in MergeInputs
    /\ \/ /\ cpi_us_df \in {fetch_cpi_us(csv) : csv \in MergeReferenceCsvs}
          /\ fetch_ok = TRUE
       \/ /\ cpi_us_df = <<>>
          /\ fetch_ok = FALSE
    /\ fetches = 1
    /\ df = NoTable
    /\ first = NaT
    /\ last_common = NaT
    /\ por_linea = <<>>
    /\ start_date = NaT
    /\ end_date = NaT
    /\ base_month = NaT
    /\ cpi_ar_base = None
    /\ cpi_us_base = None
    /\ out = <<>>
    /\ series = <<>>
    /\ shown = <<>>
    /\ prev = <<>>

\* the call merge_all(input_df, cpi_us_df), st.stop() of line 42 included
MergeAll ==
    /\ pc = "merge"
    /\ \/ /\ ~SchemaOk(input_df)
          /\ shown' = Append(shown, "error_schema")
          /\ pc' = "stopped"
          /\ UNCHANGED df
       \/ /\ SchemaOk(input_df)
          /\ MergeKeysMayMismatch(input_df)
          /\ shown' = Append(shown, "exception")
          /\ pc' = "crashed"
          /\ UNCHANGED df
       \/ /\ SchemaOk(input_df)
          /\ df' = merge_all(input_df, cpi_us_df)
          /\ pc' = "merged"
          /\ UNCHANGED shown
    /\ UNCHANGED <<input_df, cpi_us_df, fetches, fetch_ok, first, last_common,
                   por_linea, start_date, end_date, base_month, cpi_ar_base,
                   cpi_us_base, out, series, prev>>

SpecMerge == InitMerge /\ [][MergeAll]_vars

\* C4: when the input has a cpi_us column, the merged table holds the input's
\* rows, each with the caller's own cpi_us value (missing ones included),
\* whatever the reference index holds; only without that column does cpi_us
\* come from the reference index.
C4_CallerCpiUsKept ==
    pc = "merged" =>
        IF "cpi_us" \in input_df.cols
        THEN /\ Len(df.rows) = Len(input_df.rows)
             /\ {df.rows[i].idx : i \in 1..Len(df.rows)} = 1..Len(input_df.rows)
             /\ \A i \in 1..Len(df.rows) :
                   df.rows[i].cpi_us = input_df.rows[df.rows[i].idx].cpi_us
        ELSE \A i \in 1..Len(df.rows) :
                \/ /\ isna(df.rows[i].cpi_us)
                   /\ \A k \in 1..Len(cpi_us_df) : cpi_us_df[k].fecha # df.rows[i].fecha
                \/ \E k \in 1..Len(cpi_us_df) :
                      /\ cpi_us_df[k].fecha = df.rows[i].fecha
                      /\ cpi_us_df[k].cpi_us = df.rows[i].cpi_us

\* the reference index has a level for the months of two caller rows, one
\* with a level of its own and one without; both keep what the caller gave
C4_Witness ==
    /\ pc = "merged"
    /\ "cpi_us" \in input_df.cols
    /\ \E i, j \in 1..Len(df.rows) :
          /\ df.rows[i].cpi_us = Num(100)
          /\ isna(df.rows[j].cpi_us)
          /\ \E k \in 1..Len(cpi_us_df) : cpi_us_df[k].fecha = df.rows[i].fecha
          /\ \E k \in 1..Len(cpi_us_df) : cpi_us_df[k].fecha = df.rows[j].fecha

RefMonthsDistinct ==
    \A k, l \in 1..Len(cpi_us_df) : k # l => cpi_us_df[k].fecha # cpi_us_df[l].fecha

\* C5 (as claimed, here for a reference index that repeats no month): after
\* merge_all the months are pairwise distinct, also when two input dates fall
\* in the same month, and the rows are in ascending month order.
C5_MonthsUniqueAndSorted ==
    (pc = "merged" /\ RefMonthsDistinct) =>
        \A i, j \in 1..Len(df.rows) :
            i < j =>
                /\ ~DateLT(df.rows[j].fecha, df.rows[i].fecha)
                /\ (df.rows[i].fecha # NaT /\ df.rows[j].fecha # NaT) =>
                      df.rows[i].fecha # df.rows[j].fecha

----------------------------------------------------------------------------
(* compute_last_common_month on its own, and the effect of making the      *)
(* table sparser.                                                          *)

Sorted(rows) ==
    \A i \in 1..(Len(rows) - 1) :
        rows[i + 1].fecha = NaT \/ DateLE(rows[i].fecha, rows[i + 1].fecha)

\* merged tables: every column, rows in month order, NaT last
ResolverTables ==
    {Table(ValueCols \cup {"fecha"}, Reindex(r)) :
        r \in {q \in SeqsUpTo({Row(0, f, s, u, ca, cu) :
                                  f \in PickerDates \cup {NaT},
                                  s \in {NaN, Num(1000)}, u \in {NaN, Num(200)},
                                  ca \in {NaN, Num(100)}, cu \in {NaN, Num(250)}},
                              MaxRows) : Sorted(q)}}

InitResolver ==
    /\ pc = "resolve"
    /\ input_df = NoTable
    /\ cpi_us_df = <<>>
    /\ fetches = 0
    /\ fetch_ok = FALSE
    /\ df \in ResolverTables
    /\ first = NaT
    /\ last_common = NaT
    /\ por_linea = <<>>
    /\ start_date = NaT
    /\ end_date = NaT
    /\ base_month = NaT
    /\ cpi_ar_base = None
    /\ cpi_us_base = None
    /\ out = <<>>
    /\ series = <<>>
    /\ shown = <<>>
    /\ prev = <<>>

\* first, last_common, por_linea = compute_last_common_month(df)
Resolve ==
    /\ pc = "resolve"
    /\ first' = first_of(df)
    /\ last_common' = last_common_of(df)
    /\ por_linea' = fechas_of(df)
    /\ pc' = "resolved"
    /\ UNCHANGED <<input_df, cpi_us_df, fetches, fetch_ok, df, start_date, end_date,
                   base_month, cpi_ar_base, cpi_us_base, out, series, shown, prev>>

\* one value of a required field goes missing, and the table is resolved anew
Sparsify ==
    /\ pc = "resolved"
    /\ \E i \in 1..Len(df.rows), col \in ValueCols :
          /\ notna(df.rows[i][col])
          /\ df' = [df EXCEPT !.rows[i][col] = NaN]
    /\ prev' = <<[last_common |-> last_common, por_linea |-> por_linea]>>
    /\ first' = first_of(df')
    /\ last_common' = last_common_of(df')
    /\ por_linea' = fechas_of(df')
    /\ UNCHANGED <<pc, input_df, cpi_us_df, fetches, fetch_ok, start_date, end_date,
                   base_month, cpi_ar_base, cpi_us_base, out, series, shown>>

NextResolver == Resolve \/ Sparsify

SpecResolver == InitResolver /\ [][NextResolver]_vars

Sparsified == pc = "resolved" /\ prev # <<>>

SeriesOf(pl) == {pl[k].serie : k \in 1..Len(pl)}

WatermarkOf(pl, serie) ==
    LET k == CHOOSE k \in 1..Len(pl) : pl[k].serie = serie IN pl[k].fecha

\* C2 (as claimed): making a required field sparser never moves the last
\* common month later.
C2_LastCommonNeverIncreases ==
    Sparsified => ~DateLT(prev[1].last_common, last_common)

\* C2 (amended): each series' own watermark is non-increasing under
\* sparsification: a series computed for the sparser table was computed
\* before, and its watermark is missing or not later than before; so the last
\* common month is not later either as long as the same series, all with a
\* watermark, are computed before and after. (It moves later when a series
\* stops being computed.)
C2_SeriesWatermarksNeverIncrease ==
    Sparsified =>
        /\ \A serie \in SeriesOf(por_linea) :
              /\ serie \in SeriesOf(prev[1].por_linea)
              /\ \/ WatermarkOf(por_linea, serie) = NaT
                 \/ DateLE(WatermarkOf(por_linea, serie),
                           WatermarkOf(prev[1].por_linea, serie))
        /\ (/\ SeriesOf(por_linea) = SeriesOf(prev[1].por_linea)
            /\ por_linea # <<>>
            /\ \A k \in 1..Len(por_linea) : por_linea[k].fecha # NaT) =>
              DateLE(last_common, prev[1].last_common)

\* a sparsification that moved the ars_real watermark, and with it the last
\* common month, one month back
C2_Witness ==
    /\ Sparsified
    /\ "ars_real" \in SeriesOf(por_linea)
    /\ "ars_real" \in SeriesOf(prev[1].por_linea)
    /\ WatermarkOf(prev[1].por_linea, "ars_real") = MonthStart(2)
    /\ WatermarkOf(por_linea, "ars_real") = MonthStart(1)
    /\ prev[1].last_common = MonthStart(2)
    /\ last_common = MonthStart(1)

\* the rows in which every field of a series is present
Derivable(fields) == dropna(df.rows, fields) # <<>>

\* C3 (as claimed): for a non-empty table the last common month is the
\* earliest watermark among the derivable series (those with a row holding all
\* their required fields; the watermark is the latest such row's month), the
\* latest month of the table when no series is derivable, and always a defined
\* month. Stated for the tables in which every row has a month.
C3_LastCommonIsMinWatermark ==
    (pc = "resolved" /\ df.rows # <<>> /\ NaT \notin Fechas(df.rows)) =>
        LET ws == {FechaMax(dropna(df.rows, fs)) :
                      fs \in {x \in {ArsFields, UsdFields} : Derivable(x)}}
        IN /\ last_common # NaT
           /\ last_common = (IF ws = {} THEN FechaMax(df.rows) ELSE SetMin(ws))
           /\ \A w \in ws : DateLE(last_common, w)

====
